---- MODULE Spec2Model ----
(***************************************************************************)
(* A model of the pyhcs driver (src/src/hcs/device.py): the HCS session    *)
(* object, its serial transport with the power supply at the other end,    *)
(* and a single caller that constructs a session, runs public operations   *)
(* inside the with-scope and leaves the scope.                             *)
(*                                                                         *)
(* Numbers.  Python floats are modelled as integers counting hundredths    *)
(* (Unit = 100 stands for 1.0), which represents every value the two       *)
(* decimal tables of the source (1 and 2 fractional digits) can carry.     *)
(* Bytes are sequences of one-character strings.                           *)
(***************************************************************************)
EXTENDS Integers, Sequences, FiniteSets, TLC

VARIABLES pc, self, ctor, last, prev, nops, th

vars == <<pc, self, ctor, last, prev, nops, th>>

(***************************************************************************)
(* Bounds of the model.                                                    *)
(***************************************************************************)
\* public operations one caller runs inside the with-scope
MaxOps == 2

(***************************************************************************)
(* Values and bytes.                                                       *)
(***************************************************************************)
\* the model's fixed-point unit: 1.0 is Unit hundredths
Unit == 100

\* Python's None, and a value that is not None: an attribute, argument or
\* table entry that may be None holds None or Some(x)
None == <<>>
Some(x) == <<x>>
Val(o) == o[1]

\* F applied to the value x: names an intermediate result once (Python's
\* local variables)
Bind(x, F(_)) == F(x)

\* HCS.CR, HCS.ACK
CR == <<"\r">>
ACK == <<"O", "K">>

\* blind-mode maximum: the literal 1e3 of HCS.__init__, in hundredths
Sentinel == 1000 * Unit

DigitChars == <<"0", "1", "2", "3", "4", "5", "6", "7", "8", "9">>

IsDigit(c) == \E i \in 1..10 : DigitChars[i] = c

DigitValue(c) == (CHOOSE i \in 1..10 : DigitChars[i] = c) - 1

Min(a, b) == IF a < b THEN a ELSE b

RECURSIVE Pow10(_)
Pow10(d) == IF d = 0 THEN 1 ELSE 10 * Pow10(d - 1)

\* Python slice b[lo:hi] with 0 <= lo, hi (0-based, half-open, clamped)
Slice(b, lo, hi) == SubSeq(b, Min(lo, Len(b)) + 1, Min(hi, Len(b)))

\* Python slice b[lo:]
SliceFrom(b, lo) == SubSeq(b, Min(lo, Len(b)) + 1, Len(b))

\* Python b[::-1]
Reversed(b) == [i \in 1..Len(b) |-> b[Len(b) + 1 - i]]

\* bytes.rstrip(chars): drops trailing bytes while they are members of chars
RECURSIVE RStrip(_, _)
RStrip(b, chars) ==
    IF Len(b) > 0 /\ b[Len(b)] \in chars
    THEN RStrip(SubSeq(b, 1, Len(b) - 1), chars)
    ELSE b

\* bytes.lstrip of whitespace, as float() does before it parses
RECURSIVE LStrip(_, _)
LStrip(b, chars) ==
    IF Len(b) > 0 /\ b[1] \in chars
    THEN LStrip(SubSeq(b, 2, Len(b)), chars)
    ELSE b

RECURSIVE DigitsValue(_)
DigitsValue(b) ==
    IF Len(b) = 0 THEN 0
    ELSE 10 * DigitsValue(SubSeq(b, 1, Len(b) - 1)) + DigitValue(b[Len(b)])

\* float(bytes): surrounding whitespace is ignored, then a decimal number is
\* read; of the texts the wire carries here only digit runs are numbers.
\* The result is the integer read, or the exception raised.
ParseFloat(b) ==
    LET t == RStrip(LStrip(b, {"\r"}), {"\r"})
    IN  IF Len(t) > 0 /\ \A i \in 1..Len(t) : IsDigit(t[i])
        THEN [exc |-> "none", val |-> DigitsValue(t)]
        ELSE [exc |-> "ValueError", val |-> 0]

RECURSIVE Digits(_)
Digits(n) ==
    IF n < 10 THEN <<DigitChars[n + 1]>>
    ELSE Digits(n \div 10) \o <<DigitChars[(n % 10) + 1]>>

RECURSIVE Zeros(_)
Zeros(k) == IF k <= 0 THEN <<>> ELSE <<"0">> \o Zeros(k - 1)

\* "{:0{}d}".format(n, width).encode(): at least width characters, padded
\* with zeros after the sign; never cut when n needs more.
Format(n, width) ==
    IF n >= 0
    THEN Zeros(width - Len(Digits(n))) \o Digits(n)
    ELSE <<"-">> \o Zeros(width - 1 - Len(Digits(-n))) \o Digits(-n)

\* round(num / den) for den > 0: Python 3 rounds halves to the even integer
Round(num, den) ==
    LET q == num \div den
        r == num % den
    IN  IF 2 * r < den THEN q
        ELSE IF 2 * r > den THEN q + 1
        ELSE IF q % 2 = 0 THEN q ELSE q + 1

\* round(value * 10 ** decimals) for a value given in hundredths
Scaled(value, decimals) == Round(value * Pow10(decimals), Unit)

\* float(field) / 10 ** decimals, in hundredths (decimals <= 2)
Unscaled(n, decimals) == (n * Unit) \div Pow10(decimals)

(***************************************************************************)
(* The power supply at the other end of the serial line.  It is not part   *)
(* of the repository: the driver sees it only through serial.write and     *)
(* serial.read_until.  For one command it either acknowledges ("ack": the  *)
(* payload, a CR, then OK and CR; a set command is answered by OK and CR   *)
(* alone), stays silent until the read times out ("timeout"), or is cut    *)
(* off by the timeout before the marker is complete ("partial").           *)
(***************************************************************************)
Kinds == {"ack", "timeout", "partial"}

\* the device as the caller finds it: presets 5.0 V and 1.0 A, ratings
\* 36.0 V and 10.0 A, output on, constant-voltage regulation
Device0 ==
    [U |-> <<"0", "5", "0">>, I |-> <<"0", "1", "0">>,
     maxU |-> <<"3", "6", "0">>, maxI |-> <<"1", "0", "0">>,
     out |-> "0", cc |-> "0"]

Mnemonic(cmd) == Slice(cmd, 0, 4)

\* the argument of a command as written: between the mnemonic and the CR
Argument(cmd) == RStrip(SliceFrom(cmd, 4), {"\r"})

\* the payload the device answers a query with
DevicePayload(dev, cmd) ==
    CASE Mnemonic(cmd) = <<"G", "M", "A", "X">> -> dev.maxU \o dev.maxI
      [] Mnemonic(cmd) = <<"G", "E", "T", "S">> -> dev.U \o dev.I
      [] Mnemonic(cmd) = <<"G", "E", "T", "D">> ->
            dev.U \o <<"0">> \o dev.I \o <<"0">> \o <<dev.cc>>
      [] OTHER -> <<>>

\* the bytes that arrive at the host for one command
DeviceReply(dev, cmd, k) ==
    Bind(DevicePayload(dev, cmd), LAMBDA p :
        CASE k = "timeout" -> <<>>
          [] k = "ack" -> (IF Len(p) > 0 THEN p \o CR ELSE <<>>) \o ACK \o CR
          [] k = "partial" -> IF Len(p) > 0 THEN p \o CR ELSE <<"O">>)

\* the device stores the argument of a set command it acknowledges
DeviceAfter(dev, cmd, k) ==
    IF k # "ack" THEN dev
    ELSE CASE Mnemonic(cmd) = <<"V", "O", "L", "T">> -> [dev EXCEPT !.U = Argument(cmd)]
           [] Mnemonic(cmd) = <<"C", "U", "R", "R">> -> [dev EXCEPT !.I = Argument(cmd)]
           [] Mnemonic(cmd) = <<"S", "O", "U", "T">> ->
                 [dev EXCEPT !.out = IF Len(Argument(cmd)) > 0
                                     THEN Argument(cmd)[1] ELSE @]
           [] OTHER -> dev

\* serial.Serial.read_until(expected): the bytes up to and including the
\* first occurrence of expected, or all that arrived when the timeout ends
\* the wait
ReadUntil(rx, expected) ==
    LET n == Len(expected)
        hits == {i \in n..Len(rx) : SubSeq(rx, i - n + 1, i) = expected}
    IN  IF hits = {} THEN rx
        ELSE SubSeq(rx, 1, CHOOSE i \in hits : \A j \in hits : i <= j)

(***************************************************************************)
(* The class tables: HCS (lines 17-30) and HCS3202 (lines 215-228).        *)
(***************************************************************************)
Classes == {"HCS", "HCS3202"}

SET_DECIMALS(cls) ==
    IF cls = "HCS3202" THEN [U |-> Some(1), I |-> Some(1)] ELSE [U |-> None, I |-> None]

DISPLAY_DECIMALS(cls) ==
    IF cls = "HCS3202" THEN [U |-> Some(2), I |-> Some(2)] ELSE [U |-> None, I |-> None]

\* HCS3202 stores one float per quantity: 0.8 and 0.1
DEVICE_LIMITS(cls) ==
    IF cls = "HCS3202" THEN [U |-> Some(80), I |-> Some(10)] ELSE [U |-> None, I |-> None]

(***************************************************************************)
(* The session object.  A call's result is the object after the call, the  *)
(* exception it raised ("none" when it returned), the exception's message  *)
(* and the value returned.                                                 *)
(***************************************************************************)
Result(s, exc, msg, ret) == [self |-> s, exc |-> exc, msg |-> msg, ret |-> ret]

NoSerial == [state |-> "none", log |-> <<>>, rx |-> <<>>, dev |-> Device0]

NoSelf ==
    [cls |-> "none", limit_voltage |-> None, limit_current |-> None,
     max_voltage |-> None, max_current |-> None, serial |-> NoSerial]

\* serial.write and serial.read_until raise PortNotOpenError on a port that
\* is not open; the exception leaves _write and _execute at line 110
PortOpen(s) == s.serial.state = "open"

\* HCS._write: serial.write(cmd + CR); the device receives the command and
\* its answer, of kind k, arrives in the host's input buffer
_write(s, cmd, k) ==
    Bind(cmd \o CR, LAMBDA sent :
        [s EXCEPT !.serial.log = @ \o <<[ev |-> "write", data |-> sent]>>,
                  !.serial.rx = @ \o DeviceReply(s.serial.dev, sent, k),
                  !.serial.dev = DeviceAfter(@, sent, k)])

\* HCS._read: (success, answer)
_read(s) ==
    Bind(ReadUntil(s.serial.rx, ACK \o CR), LAMBDA result :
    Bind([s EXCEPT !.serial.log = @ \o <<[ev |-> "read", data |-> result]>>,
                   !.serial.rx = SubSeq(@, Len(result) + 1, Len(@))], LAMBDA t :
        IF result = <<>>
        THEN [self |-> t, success |-> FALSE, answer |-> <<>>]
        ELSE [self |-> t, success |-> TRUE,
              answer |-> RStrip(result, {"O", "K", "\r"})]))

\* _execute without its read: the command is written and the answer is
\* never fetched
_execute_NoRead(s, cmd, k) == Result(_write(s, cmd, k), "none", "", <<>>)

\* _execute that sends the command a second time when the first read
\* timed out
_execute_Retries(s, cmd, k) ==
    Bind(_read(_write(s, cmd, k)), LAMBDA r :
        IF r.success
        THEN Result(r.self, "none", "", r.answer)
        ELSE Bind(_read(_write(r.self, cmd, k)), LAMBDA q :
                 IF q.success
                 THEN Result(q.self, "none", "", q.answer)
                 ELSE Result(q.self, "Exception", "Command did not receive ACK", <<>>)))

\* HCS._execute: the answer, or Exception when the command got no ACK
_execute(s, cmd, k) ==
    IF ~PortOpen(s)
    THEN Result(s, "PortNotOpenError", "Attempting to use a port that is not open", <<>>)
    ELSE Bind(_read(_write(s, cmd, k)), LAMBDA r :
             IF r.success
             THEN Result(r.self, "none", "", r.answer)
             ELSE Result(r.self, "Exception", "Command did not receive ACK", <<>>))

\* HCS._parse_result: (voltage, current)
_parse_result(result, decimals) ==
    IF decimals.U = None \/ decimals.I = None
    THEN [exc |-> "NotImplementedError", val |-> <<>>]
    ELSE Bind(ParseFloat(Slice(result, 0, 2 + Val(decimals.U))), LAMBDA u :
         Bind(ParseFloat(SliceFrom(result, 2 + Val(decimals.I))), LAMBDA i :
             IF u.exc # "none" THEN [exc |-> u.exc, val |-> <<>>]
             ELSE IF i.exc # "none" THEN [exc |-> i.exc, val |-> <<>>]
             ELSE [exc |-> "none",
                   val |-> <<Unscaled(u.val, Val(decimals.U)),
                             Unscaled(i.val, Val(decimals.I))>>]))

\* a query: _execute, then _parse_result on the answer
Query(s, cmd, k, decimals) ==
    Bind(_execute(s, cmd, k), LAMBDA r :
        IF r.exc # "none" THEN r
        ELSE Bind(_parse_result(r.ret, decimals), LAMBDA p :
                 Result(r.self, p.exc, "", p.val)))

\* HCS.get_max
get_max(s, k) == Query(s, <<"G", "M", "A", "X">>, k, SET_DECIMALS(s.cls))

\* HCS.get_preset
get_preset(s, k) == Query(s, <<"G", "E", "T", "S">>, k, SET_DECIMALS(s.cls))

\* HCS.min_voltage: the table entry subscripted with [0]; the entry of
\* HCS3202 is a float, and subscripting a float raises TypeError
min_voltage(s) ==
    IF DEVICE_LIMITS(s.cls).U = None
    THEN [exc |-> "NotImplementedError", val |-> 0]
    ELSE [exc |-> "TypeError", val |-> 0]

\* HCS.min_current: the table entry itself
min_current(s) ==
    IF DEVICE_LIMITS(s.cls).I = None
    THEN [exc |-> "NotImplementedError", val |-> 0]
    ELSE [exc |-> "none", val |-> Val(DEVICE_LIMITS(s.cls).I)]

\* lines 186-193 and 204-211, the same for both quantities: the minimum is
\* read, a smaller value is raised to it, the value is scaled, formatted and
\* sent behind the mnemonic, and True is returned
SendValue(s, mnemonic, value, minimum, decimals, k) ==
    IF minimum.exc # "none" THEN Result(s, minimum.exc, "", <<>>)
    ELSE IF decimals = None THEN Result(s, "TypeError", "", <<>>)
    ELSE Bind(IF value < minimum.val THEN minimum.val ELSE value, LAMBDA v :
         Bind(_execute(s, mnemonic \o Format(Scaled(v, Val(decimals)),
                                             Val(decimals) + 2), k), LAMBDA r :
             IF r.exc # "none" THEN r ELSE Result(r.self, "none", "", <<TRUE>>)))

\* HCS.set_voltage
set_voltage(s, voltage, k) ==
    IF ~(voltage <= Val(s.limit_voltage))
    THEN Result(s, "AssertionError", "Invalid range! V > limit", <<>>)
    ELSE IF ~(voltage > 0)
    THEN Result(s, "AssertionError", "Negative voltage given", <<>>)
    ELSE SendValue(s, <<"V", "O", "L", "T">>, voltage, min_voltage(s),
                   SET_DECIMALS(s.cls).U, k)

\* set_current with the range checks after the command was sent
set_current_WritesFirst(s, current, k) ==
    Bind(SendValue(s, <<"C", "U", "R", "R">>, current, min_current(s),
                   SET_DECIMALS(s.cls).I, k), LAMBDA r :
        IF ~(current <= Val(s.limit_current))
        THEN Result(r.self, "AssertionError", "Invalid range! A > limit", <<>>)
        ELSE IF ~(current > 0)
        THEN Result(r.self, "AssertionError", "Negative current given", <<>>)
        ELSE r)

\* HCS.set_current
set_current(s, current, k) ==
    IF ~(current <= Val(s.limit_current))
    THEN Result(s, "AssertionError", "Invalid range! A > limit", <<>>)
    ELSE IF ~(current > 0)
    THEN Result(s, "AssertionError", "Negative current given", <<>>)
    ELSE SendValue(s, <<"C", "U", "R", "R">>, current, min_current(s),
                   SET_DECIMALS(s.cls).I, k)

\* HCS.set_output: the polarity byte is bound to pvalue and the command is
\* built from value, a name bound nowhere: NameError before _execute runs
set_output(s, on, k) ==
    LET pvalue == IF on THEN <<"0">> ELSE <<"1">>
    IN  Result(s, "NameError", "name 'value' is not defined", <<>>)

\* HCS.enable, HCS.disable
enable(s, k) == set_output(s, TRUE, k)

disable(s, k) == set_output(s, FALSE, k)

\* HCS.get_display: result[-1] is an int (a bytes subscript), which never
\* equals the bytes b"1"; the fields are parsed from the reversed answer
get_display(s, k) ==
    Bind(_execute(s, <<"G", "E", "T", "D">>, k), LAMBDA r :
        IF r.exc # "none" THEN r
        ELSE IF Len(r.ret) = 0 THEN Result(r.self, "IndexError", "", <<>>)
        ELSE Bind(FALSE, LAMBDA cc :
             Bind(_parse_result(Reversed(r.ret), DISPLAY_DECIMALS(s.cls)), LAMBDA p :
                 Result(r.self, p.exc, "",
                        IF p.exc = "none" THEN p.val \o <<cc>> ELSE <<>>))))

\* __init__ with the capability query issued in blind mode too
__init__AlwaysQueries(cls, limit_voltage, limit_current, blind, k) ==
    Bind(get_max([NoSelf EXCEPT !.cls = cls, !.limit_voltage = limit_voltage,
                                !.limit_current = limit_current,
                                !.serial.state = "open"], k), LAMBDA m :
        IF m.exc # "none" THEN m
        ELSE Result([m.self EXCEPT
                       !.max_voltage = Some(m.ret[1]),
                       !.max_current = Some(m.ret[2]),
                       !.limit_voltage = IF @ = None THEN Some(m.ret[1]) ELSE @,
                       !.limit_current = IF @ = None THEN Some(m.ret[2]) ELSE @],
                    "none", "", <<>>))

\* HCS.__init__
__init__(cls, limit_voltage, limit_current, blind, k) ==
    Bind([NoSelf EXCEPT !.cls = cls, !.limit_voltage = limit_voltage,
                        !.limit_current = limit_current,
                        !.serial.state = "open"], LAMBDA s0 :
    Bind(IF blind THEN Result(s0, "none", "", <<Sentinel, Sentinel>>)
         ELSE get_max(s0, k), LAMBDA m :
        IF m.exc # "none" THEN m
        ELSE Bind([m.self EXCEPT !.max_voltage = Some(m.ret[1]),
                                 !.max_current = Some(m.ret[2])], LAMBDA s1 :
             Bind([s1 EXCEPT
                     !.limit_voltage = IF @ = None THEN s1.max_voltage ELSE @,
                     !.limit_current = IF @ = None THEN s1.max_current ELSE @],
                  LAMBDA s2 :
                 IF ~(Val(s2.limit_voltage) <= Val(s2.max_voltage))
                 THEN Result(s2, "AssertionError", "Voltage limit > device maximum", <<>>)
                 ELSE IF ~(Val(s2.limit_current) <= Val(s2.max_voltage))
                 THEN Result(s2, "AssertionError", "Current limit > device maximum", <<>>)
                 ELSE Result(s2, "none", "", <<>>)))))

\* __exit__ that leaves the port as it is
__exit__KeepsPort(s) == s

\* HCS.__exit__: serial.__exit__() closes the port; closing a closed port
\* does nothing
__exit__(s) == [s EXCEPT !.serial.state = "closed"]

(***************************************************************************)
(* The caller.  pc is its position: before the constructor ("start"),      *)
(* inside the with-scope ("connected"), after the constructor raised       *)
(* ("failed"), after the scope was left ("closed").  ctor records the      *)
(* constructor call, last and prev the two most recent calls of public     *)
(* operations: the operation, its argument, what it raised or returned,    *)
(* the device's answer kind (k) and the transport events (io) of that      *)
(* call.  An exception raised by an operation is either caught inside the  *)
(* scope, after which the caller goes on, or leaves the scope, which runs  *)
(* __exit__.                                                               *)
(***************************************************************************)
\* arguments the caller passes, in hundredths
Voltages == {-100, 0, 50, 80, 1200, 1000000}

Currents == {-100, 0, 5, 205, 10000, 1000000}

LimitVoltages == {None, Some(1200), Some(5000)}

LimitCurrents == {None, Some(5), Some(2500), Some(5000)}

\* the callers that share the session when it is used from two threads,
\* and what each is doing inside _execute: its position ("idle" before line
\* 110, "written" between lines 110 and 111, "done" after), its command, the
\* bytes the device sent in answer to that command (reply), the bytes its
\* read_until returned (got) and the outcome of _execute
Threads == {1, 2}

NoThread == [pc |-> "idle", cmd |-> <<>>, k |-> "none", reply |-> <<>>, got |-> <<>>,
             exc |-> "none", ret |-> <<>>]

NoCall == [op |-> "none", arg |-> <<>>, k |-> "none", exc |-> "none", msg |-> "",
           ret |-> <<>>, io |-> <<>>]

Init ==
    /\ pc = "start"
    /\ self = NoSelf
    /\ ctor = [cls |-> "none", limit_voltage |-> None, limit_current |-> None,
               blind |-> FALSE, exc |-> "none", msg |-> "", io |-> <<>>]
    /\ last = NoCall
    /\ prev = NoCall
    /\ nops = 0
    /\ th = [t \in Threads |-> NoThread]

\* with cls(port, limit_voltage, limit_current, blind) as device:
Construct ==
    /\ pc = "start"
    /\ \E cls \in Classes, lv \in LimitVoltages, lc \in LimitCurrents,
          blind \in BOOLEAN, k \in Kinds :
          Bind(__init__(cls, lv, lc, blind, k), LAMBDA r :
              /\ self' = r.self
              /\ ctor' = [cls |-> cls, limit_voltage |-> lv, limit_current |-> lc,
                          blind |-> blind, exc |-> r.exc, msg |-> r.msg,
                          io |-> r.self.serial.log]
              /\ pc' = IF r.exc = "none" THEN "connected" ELSE "failed")
    /\ UNCHANGED <<last, prev, nops, th>>

\* the transport events a call added to the log
IoOf(s, r) == SubSeq(r.self.serial.log, Len(s.serial.log) + 1, Len(r.self.serial.log))

\* one call of a public operation, inside the scope or on the object the
\* caller kept after the scope ("left"), with its result r; k is
\* how the device answers the command of this call ("none" is recorded for
\* a call that sent no command)
Call(op, arg, k, r) ==
    /\ pc \in {"connected", "left"}
    /\ nops < MaxOps
    /\ self' = r.self
    /\ prev' = last
    /\ last' = [op |-> op, arg |-> arg, exc |-> r.exc, msg |-> r.msg, ret |-> r.ret,
                k |-> IF IoOf(self, r) = <<>> THEN "none" ELSE k,
                io |-> IoOf(self, r)]
    /\ nops' = nops + 1
    /\ UNCHANGED <<pc, ctor, th>>

GetMax == \E k \in Kinds : Call("get_max", <<>>, k, get_max(self, k))

GetPreset == \E k \in Kinds : Call("get_preset", <<>>, k, get_preset(self, k))

\* the regulation mode the device is in when asked is the load's choice
GetDisplay ==
    \E k \in Kinds, cc \in {"0", "1"} :
        Call("get_display", <<>>, k,
             get_display([self EXCEPT !.serial.dev.cc = cc], k))

SetVoltage ==
    \E voltage \in Voltages, k \in Kinds :
        Call("set_voltage", <<voltage>>, k, set_voltage(self, voltage, k))

SetCurrent ==
    \E current \in Currents, k \in Kinds :
        Call("set_current", <<current>>, k, set_current(self, current, k))

SetOutput ==
    \E on \in BOOLEAN, k \in Kinds :
        Call("set_output", <<on>>, k, set_output(self, on, k))

Enable == \E k \in Kinds : Call("enable", <<>>, k, enable(self, k))

Disable == \E k \in Kinds : Call("disable", <<>>, k, disable(self, k))

\* the scope is left, normally or by an exception: __exit__ runs
Exit ==
    /\ pc = "connected"
    /\ self' = __exit__(self)
    /\ pc' = "closed"
    /\ UNCHANGED <<ctor, last, prev, nops, th>>

Next ==
    \/ Construct
    \/ GetMax
    \/ GetPreset
    \/ GetDisplay
    \/ SetVoltage
    \/ SetCurrent
    \/ SetOutput
    \/ Enable
    \/ Disable
    \/ Exit

Spec == Init /\ [][Next]_vars

(***************************************************************************)
(* The codec on its own.  _parse_result is a static method and _read        *)
(* depends on nothing but the bytes read_until returns, so both are         *)
(* applied here to every payload up to MaxPayload bytes over Alphabet and   *)
(* to every decimal table with counts in DecimalCounts.  last.arg holds     *)
(* the input: the payload and the decimal counts of U and I.                *)
(***************************************************************************)
MaxPayload == 4

Alphabet == {"1", "2", "O", "K", "\r"}

Payloads == UNION {[1..n -> Alphabet] : n \in 0..MaxPayload}

DecimalCounts == 0..2

InitCodec ==
    /\ pc = "input"
    /\ self = [NoSelf EXCEPT !.serial.state = "open"]
    /\ ctor = [cls |-> "none", limit_voltage |-> None, limit_current |-> None,
               blind |-> FALSE, exc |-> "none", msg |-> "", io |-> <<>>]
    /\ \E p \in Payloads, dU \in DecimalCounts, dI \in DecimalCounts :
          last = [NoCall EXCEPT !.arg = <<p, dU, dI>>]
    /\ prev = NoCall
    /\ nops = 0
    /\ th = [t \in Threads |-> NoThread]

\* HCS._parse_result(payload, {"U": dU, "I": dI})
ParseResult ==
    /\ pc = "input"
    /\ Bind(_parse_result(last.arg[1], [U |-> Some(last.arg[2]), I |-> Some(last.arg[3])]),
            LAMBDA r : last' = [last EXCEPT !.op = "_parse_result", !.exc = r.exc,
                                            !.ret = r.val])
    /\ pc' = "done"
    /\ UNCHANGED <<self, ctor, prev, nops, th>>

\* HCS._read() when the response payload + OK + CR is what has arrived
ReadResponse ==
    /\ pc = "input"
    /\ Bind(_read([self EXCEPT !.serial.rx = last.arg[1] \o ACK \o CR]), LAMBDA r :
          /\ self' = r.self
          /\ last' = [last EXCEPT !.op = "_read", !.ret = <<r.success, r.answer>>,
                                  !.io = r.self.serial.log])
    /\ pc' = "done"
    /\ UNCHANGED <<ctor, prev, nops, th>>

NextCodec ==
    \/ ParseResult
    \/ ReadResponse

SpecCodec == InitCodec /\ [][NextCodec]_vars

(***************************************************************************)
(* The caller that keeps the object after the with-scope and goes on using *)
(* it: the scope is left (pc = "left"), then public operations are called  *)
(* on the closed session and __exit__ is called again.                     *)
(***************************************************************************)
Leave ==
    /\ pc = "connected"
    /\ self' = __exit__(self)
    /\ pc' = "left"
    /\ UNCHANGED <<ctor, last, prev, nops, th>>

\* device.__exit__(None, None, None) on the session already closed
ExitAgain ==
    /\ pc = "left"
    /\ Call("__exit__", <<>>, "none", Result(__exit__(self), "none", "", <<>>))

NextReuse ==
    \/ Construct
    \/ GetMax
    \/ GetPreset
    \/ GetDisplay
    \/ SetVoltage
    \/ SetCurrent
    \/ SetOutput
    \/ Enable
    \/ Disable
    \/ Leave
    \/ ExitAgain

SpecReuse == Init /\ [][NextReuse]_vars

(***************************************************************************)
(* Two threads that share one session.  Each runs _execute once; the       *)
(* statements of _execute are the steps: self._write(cmd) at line 110 and  *)
(* self._read() with the evaluation of its result at lines 111-115.        *)
(* Nothing in _execute, _write or _read waits for the other thread.        *)
(***************************************************************************)
ThreadCommands == {<<"G", "M", "A", "X">>, <<"C", "U", "R", "R", "0", "1", "0">>}

\* line 110 under a lock held for the whole exchange
ThreadWrite_Locked(t) ==
    /\ pc = "connected"
    /\ th[t].pc = "idle"
    /\ \A u \in Threads : th[u].pc # "written"
    /\ \E cmd \in ThreadCommands, k \in Kinds :
          /\ self' = _write(self, cmd, k)
          /\ th' = [th EXCEPT ![t] = [NoThread EXCEPT !.pc = "written", !.cmd = cmd, !.k = k,
                                         !.reply = DeviceReply(self.serial.dev, cmd \o CR, k)]]
    /\ UNCHANGED <<pc, ctor, last, prev, nops>>

\* line 110: self._write(cmd)
ThreadWrite(t) ==
    /\ pc = "connected"
    /\ th[t].pc = "idle"
    /\ \E cmd \in ThreadCommands, k \in Kinds :
          /\ self' = _write(self, cmd, k)
          /\ th' = [th EXCEPT ![t] = [NoThread EXCEPT !.pc = "written", !.cmd = cmd, !.k = k,
                                         !.reply = DeviceReply(self.serial.dev, cmd \o CR, k)]]
    /\ UNCHANGED <<pc, ctor, last, prev, nops>>

\* lines 111-115: success, answer = self._read(), then return or raise
ThreadRead(t) ==
    /\ pc = "connected"
    /\ th[t].pc = "written"
    /\ self' = _read(self).self
    /\ th' = [th EXCEPT ![t].pc = "done",
                        ![t].got = ReadUntil(self.serial.rx, ACK \o CR),
                        ![t].exc = IF _read(self).success THEN "none" ELSE "Exception",
                        ![t].ret = _read(self).answer]
    /\ UNCHANGED <<pc, ctor, last, prev, nops>>

NextConc ==
    \/ Construct
    \/ \E t \in Threads : ThreadWrite(t)
    \/ \E t \in Threads : ThreadRead(t)

SpecConc == Init /\ [][NextConc]_vars

(***************************************************************************)
(* Vocabulary of the properties.                                           *)
(***************************************************************************)
SetOps == {"set_voltage", "set_current"}

OutputOps == {"set_output", "enable", "disable"}

\* the soft limit a set operation checks its argument against
LimitOf(op) ==
    IF op = "set_voltage" THEN Val(self.limit_voltage) ELSE Val(self.limit_current)

\* the first word of an exception message of the driver
FirstWord(msg) ==
    CASE msg \in {"Negative voltage given", "Negative current given"} -> "Negative"
      [] msg \in {"Invalid range! V > limit", "Invalid range! A > limit"} -> "Invalid"
      [] msg \in {"Voltage limit > device maximum"} -> "Voltage"
      [] msg \in {"Current limit > device maximum"} -> "Current"
      [] msg \in {"Command did not receive ACK"} -> "Command"
      [] msg \in {"name 'value' is not defined"} -> "name"
      [] OTHER -> ""

\* the commands a call wrote, in order
Written(io) == SelectSeq(io, LAMBDA e : e.ev = "write")

Abs(x) == IF x < 0 THEN -x ELSE x

\* C1: every set_voltage or set_current call with a value <= 0 fails with
\* the RangeError kind and a message that begins with "Negative".
C1_NegativeIsRangeError ==
    (last.op \in SetOps /\ last.arg[1] <= 0)
        => (last.exc = "RangeError" /\ FirstWord(last.msg) = "Negative")

\* C2: every set_voltage or set_current call with a value above the soft
\* limit fails with the RangeError kind and a message that begins with
\* "Over".
C2_OverIsRangeError ==
    (last.op \in SetOps /\ last.arg[1] > LimitOf(last.op))
        => (last.exc = "RangeError" /\ FirstWord(last.msg) = "Over")

\* C3: a set_voltage or set_current call whose value is <= 0 or above the
\* soft limit raises and leaves the bytes written to the transport as they
\* were before the call.
C3_RejectWritesNothing ==
    [][(nops' = nops + 1 /\ last'.op \in SetOps
        /\ (last'.arg[1] <= 0 \/ last'.arg[1] > LimitOf(last'.op)))
       => (last'.exc # "none" /\ self'.serial.log = self.serial.log)]_vars

\* C3's case: a set_current above the soft limit was rejected on a session
\* that had already used the wire.
C3_Witness ==
    /\ last.op = "set_current"
    /\ last.arg[1] > LimitOf("set_current")
    /\ last.exc = "AssertionError"
    /\ Len(self.serial.log) > 0

\* C4: on HCS3202, set_voltage of a value above 0, below the device floor
\* 0.8 and within the soft limit succeeds when the device leaves no command
\* of the call unacknowledged, and the one command it writes is VOLT008 and
\* CR.
C4_ClampsToFloor ==
    (last.op = "set_voltage" /\ self.cls = "HCS3202" /\ last.k \in {"ack", "none"}
     /\ 0 < last.arg[1] /\ last.arg[1] < 80 /\ last.arg[1] <= LimitOf("set_voltage"))
        => /\ last.exc = "none"
           /\ last.ret = <<TRUE>>
           /\ Len(Written(last.io)) = 1
           /\ Written(last.io)[1].data = <<"V", "O", "L", "T", "0", "0", "8", "\r">>

\* C5: against a device that stores the VOLT payload and leaves no command
\* unacknowledged, a set_voltage of a value between the device floor and
\* the soft limit succeeds, and the get_preset that follows it returns that
\* value, to within 10^-decimals, as its first component.
C5_SetGetVoltage ==
    (prev.op = "set_voltage" /\ last.op = "get_preset" /\ self.cls = "HCS3202"
     /\ prev.k \in {"ack", "none"} /\ last.k \in {"ack", "none"}
     /\ 80 <= prev.arg[1] /\ prev.arg[1] <= LimitOf("set_voltage"))
        => /\ prev.exc = "none"
           /\ prev.ret = <<TRUE>>
           /\ last.exc = "none"
           /\ Abs(last.ret[1] - prev.arg[1])
                <= Unit \div Pow10(Val(SET_DECIMALS(self.cls).U))

\* C6: when the device leaves no command unacknowledged, set_output, enable
\* and disable each raise nothing, return success and write one SOUT command
\* that carries one polarity byte.
C6_OutputSucceeds ==
    (last.op \in OutputOps /\ last.k \in {"ack", "none"})
        => /\ last.exc = "none"
           /\ last.ret = <<TRUE>>
           /\ Len(Written(last.io)) = 1
           /\ Len(Written(last.io)[1].data) = 6
           /\ Mnemonic(Written(last.io)[1].data) = <<"S", "O", "U", "T">>

\* C7: a session constructed with blind=True has written nothing (read
\* nothing) during construction, and its max_voltage and max_current are
\* the sentinel 1e3.
C7_BlindNoQuery ==
    (pc # "start" /\ ctor.blind)
        => /\ ctor.io = <<>>
           /\ self.max_voltage = Some(Sentinel)
           /\ self.max_current = Some(Sentinel)

\* C7's case: a blind session was constructed and is in use.
C7_Witness == pc = "connected" /\ ctor.blind /\ ctor.cls = "HCS3202" /\ nops > 0

\* C8: a session whose construction completed has
\* 0 <= limit_voltage <= max_voltage and 0 <= limit_current <= max_current
\* (a soft limit outside these bounds ends the constructor with an error).
C8_LimitsWithinMaxima ==
    pc = "connected"
        => /\ 0 <= Val(self.limit_voltage)
           /\ Val(self.limit_voltage) <= Val(self.max_voltage)
           /\ 0 <= Val(self.limit_current)
           /\ Val(self.limit_current) <= Val(self.max_current)

\* C9: in every terminal state, after the scope was left or after the
\* constructor raised, the transport the constructor opened is closed.
C9_TransportReleased ==
    pc \in {"closed", "failed"} => self.serial.state = "closed"

\* C10: the transport events of the session alternate write, read, write,
\* read, and every call either leaves the wire alone or performs exactly
\* one write followed by exactly one read.
C10_WriteReadAlternate ==
    /\ \A i \in 1..Len(self.serial.log) :
          self.serial.log[i].ev = IF i % 2 = 1 THEN "write" ELSE "read"
    /\ Len(self.serial.log) % 2 = 0
    /\ \A c \in {prev, last} :
          \/ c.io = <<>>
          \/ /\ Len(c.io) = 2
             /\ c.io[1].ev = "write"
             /\ c.io[2].ev = "read"

\* C10's case: the constructor and two operations in a row each used the
\* wire.
C10_Witness ==
    /\ ctor.io # <<>>
    /\ prev.io # <<>>
    /\ last.io # <<>>
    /\ Len(self.serial.log) = 6

\* a read of the call returned no bytes: the timeout ended the wait
TimedOut(io) == \E i \in 1..Len(io) : io[i].ev = "read" /\ io[i].data = <<>>

\* b ends with the bytes of suffix
EndsWith(b, suffix) ==
    Len(b) >= Len(suffix) /\ SubSeq(b, Len(b) - Len(suffix) + 1, Len(b)) = suffix

\* a read of the call returned bytes that do not end with OK and CR
CutShort(io) ==
    \E i \in 1..Len(io) :
        io[i].ev = "read" /\ io[i].data # <<>> /\ ~EndsWith(io[i].data, ACK \o CR)

\* the VOLT and CURR commands among the transport events
SetCommands(log) ==
    SelectSeq(log, LAMBDA e :
        e.ev = "write" /\ Mnemonic(e.data) \in {<<"V", "O", "L", "T">>,
                                                 <<"C", "U", "R", "R">>})

\* what a set command on the wire refers to: the quantity's set-decimals and
\* soft limit
QuantityOf(cmd) == IF Mnemonic(cmd) = <<"V", "O", "L", "T">> THEN "U" ELSE "I"

DecimalsOf(cmd) == Val(SET_DECIMALS(self.cls)[QuantityOf(cmd)])

SoftLimitOf(cmd) ==
    IF QuantityOf(cmd) = "U" THEN Val(self.limit_voltage) ELSE Val(self.limit_current)

\* the payload of an acknowledged answer p + CR + OK + CR
PayloadOf(data) == SubSeq(data, 1, Len(data) - 4)

\* C11: a call whose read returned no bytes raises the command-rejected
\* Exception instead of returning a value, and its transport events are
\* exactly one write and one read (the command is not sent again); the same
\* holds of the constructor's capability query.
C11_TimeoutRaisesOnce ==
    /\ \A c \in {prev, last} :
          TimedOut(c.io)
            => /\ c.exc = "Exception"
               /\ FirstWord(c.msg) = "Command"
               /\ c.ret = <<>>
               /\ Len(c.io) = 2
               /\ c.io[1].ev = "write"
               /\ c.io[2].ev = "read"
    /\ TimedOut(ctor.io)
          => /\ pc = "failed"
             /\ ctor.exc = "Exception"
             /\ Len(ctor.io) = 2

\* C11's case: a set_current passed its range checks, was written, and the
\* device did not answer before the timeout.
C11_Witness ==
    /\ last.op = "set_current"
    /\ last.k = "timeout"
    /\ TimedOut(last.io)
    /\ Mnemonic(last.io[1].data) = <<"C", "U", "R", "R">>

\* C12: every VOLT or CURR command on the wire encodes a value that is not
\* above the session's soft limit for that quantity.
C12_WrittenWithinSoftLimit ==
    \A i \in 1..Len(SetCommands(self.serial.log)) :
        LET cmd == SetCommands(self.serial.log)[i].data
        IN  Unscaled(DigitsValue(Argument(cmd)), DecimalsOf(cmd)) <= SoftLimitOf(cmd)

\* C13: a call one of whose reads returned bytes that do not end with OK and
\* CR raises; it returns neither a parsed value nor success.
C13_CutShortRaises ==
    \A c \in {prev, last} : CutShort(c.io) => c.exc # "none"

C16_ModeFlag ==
    (last.op = "get_display" /\ last.k = "ack" /\ last.exc = "none")
        => LET p == PayloadOf(last.io[2].data)
           IN  last.ret[3] <=> (p[Len(p)] = "1")

\* C17: every VOLT or CURR command on the wire carries exactly
\* SET_DECIMALS + 2 digits (a value that needs more is rejected and nothing
\* is written).
C17_FixedWidthPayload ==
    \A i \in 1..Len(SetCommands(self.serial.log)) :
        LET cmd == SetCommands(self.serial.log)[i].data
        IN  /\ Len(Argument(cmd)) = DecimalsOf(cmd) + 2
            /\ \A j \in 1..Len(Argument(cmd)) : IsDigit(Argument(cmd)[j])

\* a byte string float() reads as a number
IsNumber(b) == ParseFloat(b).exc = "none"

\* C14: for every payload and decimal table whose two fields are numbers,
\* _parse_result returns as voltage the first 2 + dU bytes over 10^dU and as
\* current the bytes from offset 2 + dU on over 10^dI.
C14_ParsePartitions ==
    (last.op = "_parse_result"
        /\ IsNumber(Slice(last.arg[1], 0, 2 + last.arg[2]))
        /\ IsNumber(SliceFrom(last.arg[1], 2 + last.arg[2])))
        => /\ last.exc = "none"
           /\ last.ret = <<Unscaled(ParseFloat(Slice(last.arg[1], 0, 2 + last.arg[2])).val,
                                    last.arg[2]),
                           Unscaled(ParseFloat(SliceFrom(last.arg[1], 2 + last.arg[2])).val,
                                    last.arg[3])>>

\* C18: for the response p + OK + CR, _read returns success and exactly p.
C18_ReadStripsMarkerOnly ==
    last.op = "_read" => last.ret = <<TRUE, last.arg[1]>>

\* C19: the session holds no lock: while one caller's command awaits its
\* response, the other caller can write its command, and once both are
\* written either caller can read first.
C19_NoLock ==
    \A t \in Threads : \A u \in Threads \ {t} :
        (pc = "connected" /\ th[t].pc = "written")
            => /\ th[u].pc = "idle" => ENABLED ThreadWrite(u)
               /\ th[u].pc = "written" => (ENABLED ThreadRead(u)) /\ (ENABLED ThreadRead(t))

\* both commands were written before any response was read, and the one
\* read so far returned the response to the other caller's command
C19_Witness ==
    \E t \in Threads : \E u \in Threads \ {t} :
        /\ th[t].pc = "written" /\ th[u].pc = "done"
        /\ th[t].k = "ack" /\ th[u].k = "ack"
        /\ th[u].got = th[t].reply
        /\ th[u].got # th[u].reply

\* the session without the device at the other end of the line: the fields
\* of the object, the port's state and what was written and read
HostSide(s) == [s EXCEPT !.serial.dev = Device0]

\* C20: once the session is closed every step leaves it closed and
\* untouched: an operation called on it writes nothing and raises, and
\* __exit__ called again raises nothing.
C20_ClosedIsFinal ==
    [][pc = "left"
        => /\ pc' = "left"
           /\ HostSide(self') = HostSide(self)
           /\ self'.serial.state = "closed"
           /\ last'.io = <<>>
           /\ (last'.exc = "none") <=> (last'.op = "__exit__")]_vars

C20_Witness ==
    /\ pc = "left"
    /\ last.op = "__exit__" /\ last.exc = "none"
    /\ prev.op = "get_preset" /\ prev.exc = "PortNotOpenError"

====
